---------------------------- MODULE Spec2Model ----------------------------
(***************************************************************************)
(* A model of supermariopy/denseposelib.py: the label remapper, the        *)
(* semantic grouping compiler, the IoU scorer, the batch aggregator and    *)
(* its reducer, the centroid extractor and the label-map resizer.          *)
(*                                                                         *)
(* Every function of the library is a transformation over arrays held in   *)
(* memory.  Each one is modelled by an operator that computes what the     *)
(* Python code computes, and by an action that applies it to arguments     *)
(* drawn from bounded sets.  One specification per function family:        *)
(*   SpecRemap, SpecSemantic, SpecComputeIou, SpecIou, SpecOverall,        *)
(*   SpecCentroid, SpecResize.                                             *)
(* A variable that a family does not use keeps the value Idle.             *)
(***************************************************************************)
EXTENDS Integers, Sequences, FiniteSets, TLC

VARIABLES
    pc,                  \* position of the call: "call", "done"
    \* remap_parts
    part_map,            \* argument: the label map
    remap_dict,          \* argument: dict old id -> new id
    new_part_map,        \* the returned map
    \* semantic_remap_dict2remap_dict
    semantic_remap_dict, \* argument: dict new name -> list of old names
    new_part_list,       \* argument: list of new names
    compiled,            \* the outcome: [status, remap_dict]
    \* calculate_iou_df / compute_iou
    stack_shape,         \* predicted.shape = target.shape = (N, H, W)
    batch_idx,           \* loop variable of calculate_iou_df
    current_inferred,    \* predicted[batch_idx]
    current_gt,          \* target[batch_idx]
    iou,                 \* first value returned by compute_iou
    iou_labels,          \* second value returned by compute_iou
    df,                  \* the table: a sequence of rows
    \* calculate_overall_iou_from_df
    exclude_columns,     \* argument: the column names not averaged
    df_mean,             \* the returned one-row table
    \* calculate_centroids
    labels,              \* argument: the label map (also of resize_labels)
    background,          \* argument: the background label
    plain,               \* result of the call with cca=False
    split,               \* result of the call with cca=True
    \* resize_labels
    size,                \* argument: the target size (width, height)
    resized              \* the outcome: [status, value]

vars == <<pc, part_map, remap_dict, new_part_map, semantic_remap_dict,
          new_part_list, compiled, stack_shape, batch_idx, current_inferred,
          current_gt, iou, iou_labels, df, exclude_columns, df_mean, labels,
          background, plain, split, size, resized>>

remapVars == <<part_map, remap_dict, new_part_map>>
semanticVars == <<semantic_remap_dict, new_part_list, compiled>>
iouVars == <<stack_shape, batch_idx, current_inferred, current_gt, iou, iou_labels>>
overallVars == <<exclude_columns, df_mean>>
centroidVars == <<background, plain, split>>
resizeVars == <<size, resized>>

Idle == "idle"

RemapIdle == part_map = Idle /\ remap_dict = Idle /\ new_part_map = Idle
SemanticIdle == semantic_remap_dict = Idle /\ new_part_list = Idle /\ compiled = Idle
IouIdle ==
    /\ stack_shape = Idle /\ batch_idx = Idle /\ current_inferred = Idle
    /\ current_gt = Idle /\ iou = Idle /\ iou_labels = Idle
OverallIdle == exclude_columns = Idle /\ df_mean = Idle
CentroidIdle == background = Idle /\ plain = Idle /\ split = Idle
ResizeIdle == size = Idle /\ resized = Idle

(***************************************************************************)
(* Helpers shared by the families.                                         *)
(***************************************************************************)

\* The sequences that list every element of the finite set S exactly once:
\* the orders in which Python may iterate a set or a dict.
Orders(S) ==
    {s \in [1..Cardinality(S) -> S] : \A i, j \in 1..Cardinality(S) : s[i] = s[j] => i = j}

\* A 2-D array of shape [h, w]: a function of the 0-based (row, column) pairs.
Pixels2D(h, w) == (0..(h - 1)) \X (0..(w - 1))

(***************************************************************************)
(* remap_parts                                                             *)
(***************************************************************************)

\* Bounds of the label maps given to remap_parts.
RemapMaxH == 1
RemapMaxW == 2
\* The label values that occur in the maps and in the mapping.
RemapLabels == {0, 1, 2}

\* np.zeros_like(part_map), and the bug that copies the input instead
CopyLike(a) == a

ZerosLike(a) == [p \in DOMAIN a |-> 0]

\* mask = part_map == old_id
EqualMask(a, v) == {p \in DOMAIN a : a[p] = v}

\* new_part_map[mask] = new_id
MaskedAssign(a, mask, v) == [p \in DOMAIN a |-> IF p \in mask THEN v ELSE a[p]]

\* The loop of remap_parts from its i-th entry on; order is the order in
\* which remap_dict.items() yields the entries.
RECURSIVE RemapLoop(_, _, _, _, _)
RemapLoop(pm, rd, order, i, acc) ==
    IF i > Len(order) THEN acc
    ELSE LET old_id == order[i]
             new_id == rd[old_id]
             mask == EqualMask(pm, old_id)
         IN RemapLoop(pm, rd, order, i + 1, MaskedAssign(acc, mask, new_id))

remap_parts(pm, rd, order) == RemapLoop(pm, rd, order, 1, ZerosLike(pm))

RemapMaps ==
    UNION {[Pixels2D(h, w) -> RemapLabels] : h \in 1..RemapMaxH, w \in 1..RemapMaxW}

\* The dicts old id -> new id: the keys are any subset of the labels.
RemapDicts == UNION {[K -> RemapLabels] : K \in SUBSET RemapLabels}

InitRemap ==
    /\ pc = "call"
    /\ part_map \in RemapMaps
    /\ remap_dict \in RemapDicts
    /\ new_part_map = Idle
    /\ SemanticIdle /\ IouIdle /\ df = Idle /\ OverallIdle
    /\ labels = Idle /\ CentroidIdle /\ ResizeIdle

CallRemapParts ==
    /\ pc = "call"
    /\ \E order \in Orders(DOMAIN remap_dict) :
          new_part_map' = remap_parts(part_map, remap_dict, order)
    /\ pc' = "done"
    /\ UNCHANGED <<part_map, remap_dict, semanticVars, iouVars, df, overallVars,
                   labels, centroidVars, resizeVars>>

NextRemap == CallRemapParts

SpecRemap == InitRemap /\ [][NextRemap]_vars

\* C1: when remap_parts has returned, the output has the shape of the input
\* and every pixel holds remap_dict[l] when its original label l is a key
\* of the mapping and 0 otherwise, whatever the order of the entries.
C1_RemapByOriginalLabel ==
    pc = "done" =>
        /\ DOMAIN new_part_map = DOMAIN part_map
        /\ \A p \in DOMAIN part_map :
              new_part_map[p] = IF part_map[p] \in DOMAIN remap_dict
                                THEN remap_dict[part_map[p]]
                                ELSE 0
        /\ (DOMAIN remap_dict = {} => \A p \in DOMAIN part_map : new_part_map[p] = 0)
        /\ ((\A p \in DOMAIN part_map :
                 part_map[p] \in DOMAIN remap_dict /\ remap_dict[part_map[p]] = part_map[p])
            => new_part_map = part_map)

\* A swap of two labels that both occur in the map has been applied.
C1_Witness ==
    /\ pc = "done"
    /\ DOMAIN remap_dict = {1, 2} /\ remap_dict[1] = 2 /\ remap_dict[2] = 1
    /\ \E p, q \in DOMAIN part_map : part_map[p] = 1 /\ part_map[q] = 2

(***************************************************************************)
(* semantic_remap_dict2remap_dict and the part vocabulary                  *)
(***************************************************************************)

PART_DICT_ID2STR ==
    0 :> "background" @@ 1 :> "back" @@ 2 :> "chest" @@ 3 :> "right_hand"
    @@ 4 :> "left_hand" @@ 5 :> "left_foot" @@ 6 :> "right_foot"
    @@ 7 :> "back_upper_front_leg" @@ 8 :> "back_upper_left_leg"
    @@ 9 :> "right_upper_leg" @@ 10 :> "left_upper_leg"
    @@ 11 :> "back_right_lower_leg" @@ 12 :> "back_left_lower_leg"
    @@ 13 :> "right_lower_leg" @@ 14 :> "left_lower_leg"
    @@ 15 :> "left_upper_arm1" @@ 16 :> "right_upper_arm1"
    @@ 17 :> "left_upper_arm2" @@ 18 :> "right_upper_arm2"
    @@ 19 :> "left_lower_arm1" @@ 20 :> "right_lower_arm1"
    @@ 21 :> "left_lower_arm2" @@ 22 :> "right_lower_arm2"
    @@ 23 :> "left_head" @@ 24 :> "right_head"

\* list(d.values()): the values in insertion order, which is the order of
\* the dict literal, here the ascending order of the keys.
RECURSIVE DictValues(_, _)
DictValues(d, keys) ==
    IF keys = {} THEN <<>>
    ELSE LET k == CHOOSE x \in keys : \A y \in keys : x <= y
         IN <<d[k]>> \o DictValues(d, keys \ {k})

PART_LIST == DictValues(PART_DICT_ID2STR, DOMAIN PART_DICT_ID2STR)

\* Bound: the length of each list of old names.
SemMaxOld == 2
\* The new names, and the old names the lists are drawn from; the last one
\* is the name the docstring's example uses, which the vocabulary lacks.
SemNewNames == {"arm", "leg"}
SemOldNames == {"back", "chest", "left_head", "left_upper_arm"}

SeqsUpTo(S, n) == UNION {[1..k -> S] : k \in 0..n}

\* The lists of distinct names of S: new_part_list is "the complete list of
\* all new part names", in any order and of any length.
NameLists(S) == UNION {Orders(K) : K \in SUBSET S}

\* o in list
ListHas(list, o) == \E i \in 1..Len(list) : list[i] = o

\* A list.index that counts positions from 1: the off-by-one bug.
ListIndexFromOne(list, o) ==
    CHOOSE i \in 1..Len(list) : list[i] = o /\ \A j \in 1..(i - 1) : list[j] # o

\* list.index(o) for an o the list holds: the 0-based position of its first
\* occurrence.
ListIndex(list, o) ==
    (CHOOSE i \in 1..Len(list) : list[i] = o /\ \A j \in 1..(i - 1) : list[j] # o) - 1

\* d.update(e)
DictUpdate(d, e) ==
    [k \in (DOMAIN d) \cup (DOMAIN e) |-> IF k \in DOMAIN e THEN e[k] ELSE d[k]]

\* {PART_LIST.index(o): i for o in old_keys}, for old_keys all in PART_LIST
GroupDict(old_keys, i) ==
    [k \in {ListIndex(PART_LIST, old_keys[j]) : j \in 1..Len(old_keys)} |-> i]

\* The loop of semantic_remap_dict2remap_dict from position n of
\* new_part_list on (n counts from 1; enumerate's i is n - 1).
RECURSIVE CompileLoop(_, _, _, _)
CompileLoop(srd, npl, n, acc) ==
    IF n > Len(npl) THEN [status |-> "ok", remap_dict |-> acc]
    ELSE IF npl[n] \notin DOMAIN srd THEN [status |-> "KeyError"]
    ELSE LET old_keys == srd[npl[n]] IN
         IF \E j \in 1..Len(old_keys) : ~ListHas(PART_LIST, old_keys[j])
         THEN [status |-> "ValueError"]
         ELSE CompileLoop(srd, npl, n + 1, DictUpdate(acc, GroupDict(old_keys, n - 1)))

semantic_remap_dict2remap_dict(srd, npl) == CompileLoop(srd, npl, 1, <<>>)

InitSemantic ==
    /\ pc = "call"
    /\ semantic_remap_dict \in
           UNION {[K -> SeqsUpTo(SemOldNames, SemMaxOld)] : K \in SUBSET SemNewNames}
    /\ new_part_list \in NameLists(SemNewNames)
    /\ compiled = Idle
    /\ RemapIdle /\ IouIdle /\ df = Idle /\ OverallIdle
    /\ labels = Idle /\ CentroidIdle /\ ResizeIdle

CallSemanticRemap ==
    /\ pc = "call"
    /\ compiled' = semantic_remap_dict2remap_dict(semantic_remap_dict, new_part_list)
    /\ pc' = "done"
    /\ UNCHANGED <<semantic_remap_dict, new_part_list, remapVars, iouVars, df,
                   overallVars, labels, centroidVars, resizeVars>>

NextSemantic == CallSemanticRemap

SpecSemantic == InitSemantic /\ [][NextSemantic]_vars

\* The vocabulary ID of a name: its key in PART_DICT_ID2STR.
VocabularyId(o) == CHOOSE k \in DOMAIN PART_DICT_ID2STR : PART_DICT_ID2STR[k] = o
InVocabulary(o) == \E k \in DOMAIN PART_DICT_ID2STR : PART_DICT_ID2STR[k] = o

\* The names of new_part_list are all keys of the grouping table.
SemKeysPresent == \A n \in 1..Len(new_part_list) : new_part_list[n] \in DOMAIN semantic_remap_dict

\* The old name o is listed under the name at position n of new_part_list.
SemListedAt(o, n) == ListHas(semantic_remap_dict[new_part_list[n]], o)

\* Every old name listed under a name of new_part_list is in the vocabulary.
SemAllKnown ==
    \A n \in 1..Len(new_part_list) : \A o \in SemOldNames :
        SemListedAt(o, n) => InVocabulary(o)

\* C2 as claimed: every old name listed under the name at position i maps
\* to i, and an unknown old name makes the call fail with no mapping.
C2_Original ==
    pc = "done" /\ SemKeysPresent =>
        /\ SemAllKnown =>
              /\ compiled.status = "ok"
              /\ \A n \in 1..Len(new_part_list) : \A o \in SemOldNames :
                    SemListedAt(o, n) =>
                        /\ VocabularyId(o) \in DOMAIN compiled.remap_dict
                        /\ compiled.remap_dict[VocabularyId(o)] = n - 1
        /\ ~SemAllKnown => compiled = [status |-> "ValueError"]

\* C2 as amended: every old name listed under a name of new_part_list maps
\* to the last position of new_part_list whose name lists it (later groups
\* overwrite earlier ones); an unknown old name makes the call fail with a
\* ValueError and no mapping.
C2_LastGroupWins ==
    pc = "done" /\ SemKeysPresent =>
        /\ SemAllKnown =>
              /\ compiled.status = "ok"
              /\ \A n \in 1..Len(new_part_list) : \A o \in SemOldNames :
                    SemListedAt(o, n)
                    /\ (\A m \in (n + 1)..Len(new_part_list) : ~SemListedAt(o, m))
                    => /\ VocabularyId(o) \in DOMAIN compiled.remap_dict
                       /\ compiled.remap_dict[VocabularyId(o)] = n - 1
        /\ ~SemAllKnown => compiled = [status |-> "ValueError"]

\* Two groups list the same old name and the call has returned a mapping.
C2_Witness ==
    /\ pc = "done" /\ SemKeysPresent /\ SemAllKnown
    /\ Len(new_part_list) = 2
    /\ \E o \in SemOldNames : SemListedAt(o, 1) /\ SemListedAt(o, 2)
    /\ compiled.status = "ok"

(***************************************************************************)
(* compute_iou and calculate_iou_df                                        *)
(***************************************************************************)

\* Bounds: the width of the maps given to compute_iou, and the number of
\* samples of the stacks given to calculate_iou_df.
IouMaxW == 3
IouMaxN == 2
\* The widths of the maps of those stacks.
IouDfWidths == {1, 2}
\* label_names, and the label values of the maps: the positions of the names.
IouLabelNames == <<"zeros", "ones", "twos">>
IouLabels == {i - 1 : i \in 1..Len(IouLabelNames)}

\* A float is modelled by the exact fraction <<numerator, denominator>>;
\* x / 0 is kept as <<x, 0>> (numpy's nan or inf).
Sentinel == <<-1, 1>>
FloatOf(n) == <<n, 1>>

\* np.unique(a): the distinct values, ascending.
RECURSIVE SortedSeq(_)
SortedSeq(S) ==
    IF S = {} THEN <<>>
    ELSE LET lo == CHOOSE x \in S : \A y \in S : x <= y
         IN <<lo>> \o SortedSeq(S \ {lo})

\* np.unique of the predicted map: the bug of taking the labels from pred
UniqueOfOther(a, b) == SortedSeq({b[p] : p \in DOMAIN b})

\* Every label value of the vocabulary, present or not: the bug of looping
\* over range(len(label_names)) instead of the labels of the ground truth.
UniqueOfRange(lab, pred) == SortedSeq(IouLabels)

\* unique_labels = np.unique(label); pred is not read
UniqueLabels(lab, pred) == SortedSeq({lab[p] : p \in DOMAIN lab})

\* pred == val, as a boolean array
EqualArray(a, v) == [p \in DOMAIN a |-> a[p] = v]

LogicalAnd(a, b) == [p \in DOMAIN a |-> a[p] /\ b[p]]

LogicalOr(a, b) == [p \in DOMAIN a |-> a[p] \/ b[p]]

\* np.sum of a boolean array: the number of True entries.
RECURSIVE SumOver(_, _)
SumOver(a, ps) ==
    IF ps = {} THEN 0
    ELSE LET p == CHOOSE x \in ps : TRUE
         IN (IF a[p] THEN 1 ELSE 0) + SumOver(a, ps \ {p})

NpSum(a) == SumOver(a, DOMAIN a)

\* Intersection[index] and Union[index] for val, then their quotient.
IouOf(pred, lab, val) ==
    LET pred_i == EqualArray(pred, val)
        label_i == EqualArray(lab, val)
    IN <<NpSum(LogicalAnd(label_i, pred_i)), NpSum(LogicalOr(label_i, pred_i))>>

\* compute_iou(pred, label): (Intersection / Union, unique_labels)
compute_iou(pred, lab) ==
    LET unique_labels == UniqueLabels(lab, pred)
    IN <<[index \in 1..Len(unique_labels) |-> IouOf(pred, lab, unique_labels[index])],
         unique_labels>>

\* pi in iou_labels
InArray(arr, v) == \E j \in 1..Len(arr) : arr[j] = v

\* float(np.squeeze(iou[pi == iou_labels])): the entry of iou at the one
\* position where iou_labels equals pi.
IouAt(io, io_labels, pi) == io[CHOOSE j \in 1..Len(io_labels) : io_labels[j] = pi]

\* The row that one iteration of calculate_iou_df appends: -1.0 for every
\* name, overwritten by the IoU for the names whose position is in
\* iou_labels, then batch_idx.
IouColumns(label_names) == {"batch_idx"} \cup {label_names[i] : i \in 1..Len(label_names)}

\* The same row with 0.0 where the label is absent: the bug of dropping the
\* sentinel.
DfUpdateZeroForAbsent(io, io_labels, label_names, bi) ==
    [c \in IouColumns(label_names) |->
        IF c = "batch_idx" THEN FloatOf(bi)
        ELSE LET pi == (CHOOSE i \in 1..Len(label_names) : label_names[i] = c) - 1
             IN IF InArray(io_labels, pi) THEN IouAt(io, io_labels, pi) ELSE FloatOf(0)]

DfUpdate(io, io_labels, label_names, bi) ==
    [c \in IouColumns(label_names) |->
        IF c = "batch_idx" THEN FloatOf(bi)
        ELSE LET pi == (CHOOSE i \in 1..Len(label_names) : label_names[i] = c) - 1
             IN IF InArray(io_labels, pi) THEN IouAt(io, io_labels, pi) ELSE Sentinel]

IouMaps(w) == [Pixels2D(1, w) -> IouLabels]

InitComputeIou ==
    /\ pc = "call"
    /\ \E w \in 1..IouMaxW :
          /\ current_inferred \in IouMaps(w)
          /\ current_gt \in IouMaps(w)
    /\ iou = <<>> /\ iou_labels = <<>>
    /\ stack_shape = Idle /\ batch_idx = Idle /\ df = Idle
    /\ RemapIdle /\ SemanticIdle /\ OverallIdle
    /\ labels = Idle /\ CentroidIdle /\ ResizeIdle

CallComputeIou ==
    /\ pc = "call"
    /\ LET res == compute_iou(current_inferred, current_gt) IN
          /\ iou' = res[1]
          /\ iou_labels' = res[2]
    /\ pc' = "done"
    /\ UNCHANGED <<current_inferred, current_gt, stack_shape, batch_idx, df,
                   remapVars, semanticVars, overallVars, labels, centroidVars,
                   resizeVars>>

NextComputeIou == CallComputeIou

SpecComputeIou == InitComputeIou /\ [][NextComputeIou]_vars

InitIou ==
    /\ pc = "loop"
    /\ stack_shape \in {<<n, 1, w>> : n \in 0..IouMaxN, w \in IouDfWidths}
    /\ batch_idx = 0
    /\ current_inferred = <<>> /\ current_gt = <<>>
    /\ iou = <<>> /\ iou_labels = <<>>
    /\ df = <<>>
    /\ RemapIdle /\ SemanticIdle /\ OverallIdle
    /\ labels = Idle /\ CentroidIdle /\ ResizeIdle

\* One iteration of the loop of calculate_iou_df, for the next sample of the
\* two stacks.
IouDfStep ==
    /\ pc = "loop"
    /\ batch_idx < stack_shape[1]
    /\ \E pred \in IouMaps(stack_shape[3]), gt \in IouMaps(stack_shape[3]) :
          LET res == compute_iou(pred, gt) IN
          /\ current_inferred' = pred
          /\ current_gt' = gt
          /\ iou' = res[1]
          /\ iou_labels' = res[2]
          /\ df' = Append(df, DfUpdate(res[1], res[2], IouLabelNames, batch_idx))
    /\ batch_idx' = batch_idx + 1
    /\ UNCHANGED <<pc, stack_shape, remapVars, semanticVars, overallVars, labels,
                   centroidVars, resizeVars>>

\* The loop has run len(predicted) times: return df.
IouDfReturn ==
    /\ pc = "loop"
    /\ batch_idx = stack_shape[1]
    /\ pc' = "done"
    /\ UNCHANGED <<stack_shape, batch_idx, current_inferred, current_gt, iou,
                   iou_labels, df, remapVars, semanticVars, overallVars, labels,
                   centroidVars, resizeVars>>

NextIou == IouDfStep \/ IouDfReturn

SpecIou == InitIou /\ [][NextIou]_vars

\* The pixels of map a that carry the value v.
PixelsOf(a, v) == {p \in DOMAIN a : a[p] = v}
\* The fraction x equals the quotient n / d of two counts, d > 0.
IsQuotient(x, n, d) == d > 0 /\ x[2] # 0 /\ x[1] * d = n * x[2]

\* C3: the labels compute_iou returns are the distinct values of the
\* ground truth in ascending order, and the IoU at each position is the
\* number of pixels where both maps carry the value divided by the number
\* of pixels where at least one does; so it is 1.0 for every label when
\* pred equals label and 0.0 when the two masks of a label share no pixel.
C3_IouIsJaccard ==
    pc = "done" =>
        /\ {iou_labels[j] : j \in 1..Len(iou_labels)} = {current_gt[p] : p \in DOMAIN current_gt}
        /\ \A j, k \in 1..Len(iou_labels) : j < k => iou_labels[j] < iou_labels[k]
        /\ Len(iou) = Len(iou_labels)
        /\ \A j \in 1..Len(iou_labels) :
              LET v == iou_labels[j]
                  both == PixelsOf(current_inferred, v) \cap PixelsOf(current_gt, v)
                  any == PixelsOf(current_inferred, v) \cup PixelsOf(current_gt, v)
              IN /\ IsQuotient(iou[j], Cardinality(both), Cardinality(any))
                 /\ (current_inferred = current_gt => IsQuotient(iou[j], 1, 1))
                 /\ (both = {} => IsQuotient(iou[j], 0, 1))

\* compute_iou has scored a pair of maps that agree on one label's pixels
\* only in part, and a label the prediction misses altogether.
C3_Witness ==
    /\ pc = "done"
    /\ Len(iou_labels) = 3
    /\ \E j, k \in 1..Len(iou_labels) :
          /\ IsQuotient(iou[j], 1, 2)
          /\ IsQuotient(iou[k], 0, 1)

\* The entry the table must hold for label value v and the sample (pred, gt):
\* the Jaccard index of the two masks when v occurs in gt, the sentinel
\* otherwise.
IsEntryFor(x, v, pred, gt) ==
    IF PixelsOf(gt, v) # {}
    THEN IsQuotient(x, Cardinality(PixelsOf(pred, v) \cap PixelsOf(gt, v)),
                       Cardinality(PixelsOf(pred, v) \cup PixelsOf(gt, v)))
    ELSE x = Sentinel

IsRowFor(row, k, pred, gt) ==
    /\ DOMAIN row = IouColumns(IouLabelNames)
    /\ row["batch_idx"] = FloatOf(k)
    /\ \A i \in 1..Len(IouLabelNames) :
          /\ IsEntryFor(row[IouLabelNames[i]], i - 1, pred, gt)
          /\ (PixelsOf(gt, i - 1) # {} /\ PixelsOf(pred, i - 1) = {}
                => row[IouLabelNames[i]] # Sentinel
                   /\ IsQuotient(row[IouLabelNames[i]], 0, 1))

\* C4: the table has one row per sample handled so far, in sample order
\* (row k has batch_idx = k, a written row never changes, and the returned
\* table has N rows), and the row of a sample holds, for the name at
\* position i, the IoU of label value i when i occurs in the sample's
\* target and -1.0 when it does not; a label of the target that is never
\* predicted gets 0.0.
C4_OneRowPerSample ==
    /\ [](/\ Len(df) = batch_idx
          /\ (pc = "done" => Len(df) = stack_shape[1])
          /\ \A k \in 1..Len(df) : df[k]["batch_idx"] = FloatOf(k - 1)
          /\ (batch_idx > 0 =>
                IsRowFor(df[batch_idx], batch_idx - 1, current_inferred, current_gt)))
    /\ [][/\ Len(df') >= Len(df)
          /\ \A k \in 1..Len(df) : df'[k] = df[k]]_vars

\* A table of two rows has been returned whose last sample predicts a label
\* the target lacks, and misses a label the target has.
C4_Witness ==
    /\ pc = "done" /\ Len(df) = 2
    /\ \E v \in IouLabels :
          PixelsOf(current_gt, v) = {} /\ PixelsOf(current_inferred, v) # {}
    /\ \E v \in IouLabels :
          PixelsOf(current_gt, v) # {} /\ PixelsOf(current_inferred, v) = {}
    /\ df[1] # df[2]

(***************************************************************************)
(* calculate_overall_iou_from_df                                           *)
(***************************************************************************)

\* Bound: the number of rows of the table.
OverallMaxRows == 2
\* The label columns of the table and the values of their entries: the
\* sentinel and the IoU values 0, 1/2 and 1.
OverallLabelNames == <<"background", "ones">>
OverallEntries == {Sentinel, FloatOf(0), <<1, 2>>, FloatOf(1)}
\* The default of exclude_columns.
DefaultExclude == {"global_step", "batch_idx", "background"}
\* The values given for exclude_columns.
OverallExcludes == {DefaultExclude, {"batch_idx"}, {"background"}, {}}

NaN == <<0, 0>>
IsNaN(x) == x[2] = 0

\* x == -1, for floats
FloatEq(x, y) == x[2] # 0 /\ y[2] # 0 /\ x[1] * y[2] = y[1] * x[2]

FloatAdd(x, y) == <<x[1] * y[2] + y[1] * x[2], x[2] * y[2]>>

\* x / n for a count n > 0
FloatDiv(x, n) == <<x[1], x[2] * n>>

\* An entry left as it is: the bug of averaging the sentinel as a value.
KeepEntry(x) == x

\* df[df != -1], for one entry: the entry where the test holds, NaN elsewhere.
MaskSentinel(x) == IF FloatEq(x, Sentinel) THEN NaN ELSE x

\* The mean pandas takes of a sequence of floats: NaN entries are skipped
\* (skipna), and a sequence without any other entry has the mean NaN.
RECURSIVE SumSkipNa(_, _)
SumSkipNa(xs, i) ==
    IF i > Len(xs) THEN FloatOf(0)
    ELSE IF IsNaN(xs[i]) THEN SumSkipNa(xs, i + 1)
    ELSE FloatAdd(xs[i], SumSkipNa(xs, i + 1))

RECURSIVE CountSkipNa(_, _)
CountSkipNa(xs, i) ==
    IF i > Len(xs) THEN 0
    ELSE (IF IsNaN(xs[i]) THEN 0 ELSE 1) + CountSkipNa(xs, i + 1)

MeanSkipNa(xs) ==
    IF CountSkipNa(xs, 1) = 0 THEN NaN
    ELSE FloatDiv(SumSkipNa(xs, 1), CountSkipNa(xs, 1))

\* filter(lambda x: x not in exclude_columns, df.columns), in column order
RECURSIVE FilterColumns(_, _, _)
FilterColumns(columns, exclude, i) ==
    IF i > Len(columns) THEN <<>>
    ELSE (IF columns[i] \in exclude THEN <<>> ELSE <<columns[i]>>)
         \o FilterColumns(columns, exclude, i + 1)

\* calculate_overall_iou_from_df(df, exclude_columns) for a table with the
\* given columns: the column means of the masked table, then "overall".
calculate_overall_iou_from_df(table, columns, exclude) ==
    LET masked == [k \in 1..Len(table) |->
                      [c \in DOMAIN table[k] |-> MaskSentinel(table[k][c])]]
        mean == [c \in {columns[i] : i \in 1..Len(columns)} |->
                      MeanSkipNa([k \in 1..Len(masked) |-> masked[k][c]])]
        kept == FilterColumns(columns, exclude, 1)
        overall == MeanSkipNa([i \in 1..Len(kept) |-> mean[kept[i]]])
    IN [c \in (DOMAIN mean) \cup {"overall"} |->
           IF c = "overall" THEN overall ELSE mean[c]]

\* df.columns of a table made by calculate_iou_df
DfColumns(label_names) == <<"batch_idx">> \o label_names

OverallRows(k) ==
    {[c \in IouColumns(OverallLabelNames) |->
         IF c = "batch_idx" THEN FloatOf(k) ELSE e[c]] :
     e \in [{OverallLabelNames[i] : i \in 1..Len(OverallLabelNames)} -> OverallEntries]}

InitOverall ==
    /\ pc = "call"
    /\ \E n \in 0..OverallMaxRows :
          df \in {t \in [1..n -> UNION {OverallRows(k) : k \in 0..(n - 1)}] :
                     \A k \in 1..n : t[k]["batch_idx"] = FloatOf(k - 1)}
    /\ exclude_columns \in OverallExcludes
    /\ df_mean = Idle
    /\ RemapIdle /\ SemanticIdle /\ IouIdle
    /\ labels = Idle /\ CentroidIdle /\ ResizeIdle

CallOverallIou ==
    /\ pc = "call"
    /\ df_mean' = calculate_overall_iou_from_df(df, DfColumns(OverallLabelNames),
                                                exclude_columns)
    /\ pc' = "done"
    /\ UNCHANGED <<df, exclude_columns, remapVars, semanticVars, iouVars, labels,
                   centroidVars, resizeVars>>

NextOverall == CallOverallIou

SpecOverall == InitOverall /\ [][NextOverall]_vars

\* The sum of the integers w[x], x in S.
RECURSIVE SumOf(_, _)
SumOf(S, w) ==
    IF S = {} THEN 0
    ELSE LET x == CHOOSE y \in S : TRUE IN w[x] + SumOf(S \ {x}, w)

RECURSIVE Factorial(_)
Factorial(n) == IF n <= 1 THEN 1 ELSE n * Factorial(n - 1)

\* The rows of df whose entry in column c is not the sentinel.
RowsPresent(c) == {k \in 1..Len(df) : df[k][c][1] # -df[k][c][2]}
\* Twice the entry, an integer: the entries of df are multiples of 1/2.
Twice(x) == (2 * x[1]) \div x[2]
\* Twice the sum of the non-sentinel entries of column c.
TwiceColumnSum(c) == SumOf(RowsPresent(c), [k \in 1..Len(df) |-> Twice(df[k][c])])
\* The columns that count for "overall": not excluded, and not all sentinel.
ColumnsAveraged ==
    {c \in IouColumns(OverallLabelNames) : c \notin exclude_columns /\ RowsPresent(c) # {}}

\* C5: each column mean is the mean of the column's entries other than the
\* sentinel -1 (and is missing when there is none), and "overall" is the
\* mean of those means over the columns that are not excluded and have a
\* mean; it is a finite number whenever there is such a column.
C5_SentinelLeftOut ==
    pc = "done" =>
        /\ \A c \in IouColumns(OverallLabelNames) :
              IF RowsPresent(c) = {} THEN IsNaN(df_mean[c])
              ELSE IsQuotient(df_mean[c], TwiceColumnSum(c), 2 * Cardinality(RowsPresent(c)))
        /\ IF ColumnsAveraged = {} THEN IsNaN(df_mean["overall"])
           ELSE LET F == Factorial(Len(df)) IN
                IsQuotient(df_mean["overall"],
                           SumOf(ColumnsAveraged,
                                 [c \in IouColumns(OverallLabelNames) |->
                                    IF RowsPresent(c) = {} THEN 0
                                    ELSE TwiceColumnSum(c) * (F \div Cardinality(RowsPresent(c)))]),
                           2 * F * Cardinality(ColumnsAveraged))

\* The reducer has averaged a table in which one label column holds the
\* sentinel in every row and another holds it in one row of two.
C5_Witness ==
    /\ pc = "done" /\ Len(df) = 2
    /\ exclude_columns = {"batch_idx"}
    /\ RowsPresent("background") = {}
    /\ Cardinality(RowsPresent("ones")) = 1
    /\ IsQuotient(df_mean["overall"], 1, 2)

(***************************************************************************)
(* calculate_centroids                                                     *)
(***************************************************************************)

\* Bounds: the height and the width of the label map.
CentMaxH == 2
CentMaxW == 3
\* The label values of the map, and the values given for background (2 is
\* a background label that the map never holds).
CentLabels == {0, 1}
CentBackgrounds == {0, 1, 2}

\* The unique labels with nothing removed: the bug of keeping background.
KeepAll(S, b) == S

\* set(unique_labels) - set([background])
WithoutLabel(S, b) == S \ {b}

\* The sum of the coordinate d (1: row, 2: column) over the pixels of ps.
RECURSIVE CoordSum(_, _)
CoordSum(ps, d) ==
    IF ps = {} THEN 0
    ELSE LET p == CHOOSE x \in ps : TRUE IN p[d] + CoordSum(ps \ {p}, d)

\* scipy's center_of_mass of a boolean mask whose True pixels are ps: per
\* axis, the sum of the coordinates over the number of pixels, as a float.
center_of_mass(ps) ==
    <<<<CoordSum(ps, 1), Cardinality(ps)>>, <<CoordSum(ps, 2), Cardinality(ps)>>>>

\* The nearest integer, halves up: the bug of rounding instead of casting.
RoundHalfUp(x) == (2 * x[1] + x[2]) \div (2 * x[2])

\* float -> int by astype: the fraction is dropped (truncation toward zero).
AsTypeInt(x) ==
    IF x[1] >= 0 THEN x[1] \div x[2] ELSE -((-x[1]) \div x[2])

\* _calc_centroid(x)
CalcCentroid(ps) ==
    LET c == center_of_mass(ps) IN <<AsTypeInt(c[1]), AsTypeInt(c[2])>>

\* Neighbours along the rows and columns only: the bug of connectivity=1.
Adjacent4(p, q) ==
    \/ (p[1] = q[1] /\ (p[2] - q[2] = 1 \/ q[2] - p[2] = 1))
    \/ (p[2] = q[2] /\ (p[1] - q[1] = 1 \/ q[1] - p[1] = 1))

\* measure.label's default connectivity for a 2-D array is 2: the eight
\* neighbours of a pixel, diagonals included.
Adjacent8(p, q) ==
    /\ p # q
    /\ p[1] - q[1] \in {-1, 0, 1}
    /\ p[2] - q[2] \in {-1, 0, 1}

\* The pixels of ps connected to the pixels of grown.
RECURSIVE GrowRegion(_, _)
GrowRegion(grown, ps) ==
    LET more == {q \in ps \ grown : \E p \in grown : Adjacent8(p, q)}
    IN IF more = {} THEN grown ELSE GrowRegion(grown \cup more, ps)

\* The first pixel of ps in raster order.
FirstPixel(ps) ==
    CHOOSE p \in ps : \A q \in ps : p[1] < q[1] \/ (p[1] = q[1] /\ p[2] <= q[2])

\* measure.label(label_mask): the regions of the mask, numbered 1, 2, ...
\* in raster order of their first pixel; region 0 is the rest of the array.
RECURSIVE MeasureLabel(_)
MeasureLabel(ps) ==
    IF ps = {} THEN <<>>
    ELSE LET region == GrowRegion({FirstPixel(ps)}, ps)
         IN <<region>> \o MeasureLabel(ps \ region)

\* The loop of calculate_centroids over the labels, in the iteration order
\* of the set unique_labels.
RECURSIVE CentroidLoop(_, _, _, _, _)
CentroidLoop(lab, cca, order, i, acc) ==
    IF i > Len(order) THEN acc
    ELSE LET label_id == order[i]
             label_mask == EqualMask(lab, label_id)
         IN IF cca
            THEN LET connected_masks == MeasureLabel(label_mask)
                     current_centroids ==
                         [j \in 1..Len(connected_masks) |-> CalcCentroid(connected_masks[j])]
                 IN CentroidLoop(lab, cca, order, i + 1,
                        [centroids |-> acc.centroids \o current_centroids,
                         centroid_labels |-> acc.centroid_labels \o
                             [j \in 1..Len(current_centroids) |-> label_id]])
            ELSE CentroidLoop(lab, cca, order, i + 1,
                        [centroids |-> Append(acc.centroids, CalcCentroid(label_mask)),
                         centroid_labels |-> Append(acc.centroid_labels, label_id)])

\* The set unique_labels of calculate_centroids.
CentroidLabelSet(lab, b) == WithoutLabel({lab[p] : p \in DOMAIN lab}, b)

calculate_centroids(lab, cca, order) ==
    CentroidLoop(lab, cca, order, 1, [centroids |-> <<>>, centroid_labels |-> <<>>])

NoCentroids == [centroids |-> <<>>, centroid_labels |-> <<>>]

InitCentroid ==
    /\ pc = "call"
    /\ labels \in UNION {[Pixels2D(h, w) -> CentLabels] : h \in 1..CentMaxH, w \in 1..CentMaxW}
    /\ background \in CentBackgrounds
    /\ plain = NoCentroids
    /\ split = NoCentroids
    /\ RemapIdle /\ SemanticIdle /\ IouIdle /\ df = Idle /\ OverallIdle /\ ResizeIdle

\* calculate_centroids(labels, cca=False, background)
CallCentroidsPlain ==
    /\ pc \in {"call", "split_done"}
    /\ \E order \in Orders(CentroidLabelSet(labels, background)) :
          plain' = calculate_centroids(labels, FALSE, order)
    /\ pc' = IF pc = "call" THEN "plain_done" ELSE "done"
    /\ UNCHANGED <<labels, background, split, remapVars, semanticVars, iouVars, df,
                   overallVars, resizeVars>>

\* calculate_centroids(labels, cca=True, background)
CallCentroidsSplit ==
    /\ pc \in {"call", "plain_done"}
    /\ \E order \in Orders(CentroidLabelSet(labels, background)) :
          split' = calculate_centroids(labels, TRUE, order)
    /\ pc' = IF pc = "call" THEN "split_done" ELSE "done"
    /\ UNCHANGED <<labels, background, plain, remapVars, semanticVars, iouVars, df,
                   overallVars, resizeVars>>

NextCentroid == CallCentroidsPlain \/ CallCentroidsSplit

SpecCentroid == InitCentroid /\ [][NextCentroid]_vars

PlainReturned == pc \in {"plain_done", "done"}
SplitReturned == pc \in {"split_done", "done"}

\* The integer c is the mean of the coordinate d over ps with its fraction
\* dropped: c <= mean < c + 1.
IsTruncatedMean(c, ps, d) ==
    /\ c * Cardinality(ps) <= CoordSum(ps, d)
    /\ CoordSum(ps, d) < (c + 1) * Cardinality(ps)

\* The integer c is an integer nearest to the mean of the coordinate d over
\* ps: |c - mean| <= 1/2.
IsNearestToMean(c, ps, d) ==
    /\ 2 * c * Cardinality(ps) - 2 * CoordSum(ps, d) <= Cardinality(ps)
    /\ 2 * CoordSum(ps, d) - 2 * c * Cardinality(ps) <= Cardinality(ps)

\* C6: without splitting, the two lists have the same length and hold one
\* pair for each distinct label of the map other than background, none for
\* background and none for a label the map lacks; the centroid at position
\* j is the one of the label at position j.
C6_OneCentroidPerLabel ==
    PlainReturned =>
        /\ Len(plain.centroids) = Len(plain.centroid_labels)
        /\ {plain.centroid_labels[j] : j \in 1..Len(plain.centroid_labels)}
              = {labels[p] : p \in DOMAIN labels} \ {background}
        /\ \A j, k \in 1..Len(plain.centroid_labels) :
              plain.centroid_labels[j] = plain.centroid_labels[k] => j = k
        /\ \A j \in 1..Len(plain.centroid_labels) :
              LET ps == PixelsOf(labels, plain.centroid_labels[j]) IN
              /\ IsTruncatedMean(plain.centroids[j][1], ps, 1)
              /\ IsTruncatedMean(plain.centroids[j][2], ps, 2)

\* The map holds two labels, one of them background, and a third value is
\* absent; the call has returned.
C6_Witness ==
    /\ PlainReturned
    /\ {labels[p] : p \in DOMAIN labels} = {0, 1}
    /\ background = 0
    /\ Len(plain.centroids) = 1

\* C7 as claimed: each coordinate of a centroid is an integer nearest to the
\* exact mean position of the label's pixels.
C7_Original ==
    PlainReturned =>
        \A j \in 1..Len(plain.centroid_labels) :
            LET ps == PixelsOf(labels, plain.centroid_labels[j]) IN
            /\ IsNearestToMean(plain.centroids[j][1], ps, 1)
            /\ IsNearestToMean(plain.centroids[j][2], ps, 2)

\* C7 as amended: each coordinate of a centroid is the exact mean position
\* of the label's pixels with its fraction dropped (the floor of the mean).
C7_CentroidIsTruncatedMean ==
    PlainReturned =>
        \A j \in 1..Len(plain.centroid_labels) :
            LET ps == PixelsOf(labels, plain.centroid_labels[j]) IN
            /\ IsTruncatedMean(plain.centroids[j][1], ps, 1)
            /\ IsTruncatedMean(plain.centroids[j][2], ps, 2)

\* A label whose mean position has a fraction above one half in both
\* coordinates has got its centroid.
C7_Witness ==
    /\ PlainReturned
    /\ \E j \in 1..Len(plain.centroid_labels) :
          LET ps == PixelsOf(labels, plain.centroid_labels[j]) IN
          /\ ~IsNearestToMean(plain.centroids[j][1], ps, 1)
          /\ ~IsNearestToMean(plain.centroids[j][2], ps, 2)

\* Two pixels touch when they differ by at most one row and one column.
Touching(p, q) ==
    p # q /\ (p[1] - q[1]) * (p[1] - q[1]) <= 1 /\ (p[2] - q[2]) * (p[2] - q[2]) <= 1

\* The pixels of ps reached from the set from in at most n steps between
\* touching pixels.
RECURSIVE Reached(_, _, _)
Reached(from, ps, n) ==
    IF n = 0 THEN from
    ELSE Reached(from \cup {q \in ps : \E p \in from : Touching(p, q)}, ps, n - 1)

\* The connected regions of the pixels that carry the label v.
RegionsOf(v) ==
    LET ps == PixelsOf(labels, v)
    IN {Reached({p}, ps, Cardinality(ps)) : p \in ps}

\* The labels of the map other than background.
ForegroundLabels == {labels[p] : p \in DOMAIN labels} \ {background}

\* C8: with splitting, the number of centroids is at least the number
\* without it, and equal exactly when the pixels of every label other than
\* background form one connected region; every centroid is the centroid of
\* a region of the label it is tagged with, and each label tags as many
\* centroids as it has regions.
C8_SplitCountsRegions ==
    pc = "done" =>
        /\ Len(split.centroids) = Len(split.centroid_labels)
        /\ Len(split.centroids) >= Len(plain.centroids)
        /\ (Len(split.centroids) = Len(plain.centroids)
              <=> \A v \in ForegroundLabels : Cardinality(RegionsOf(v)) = 1)
        /\ \A j \in 1..Len(split.centroid_labels) :
              /\ split.centroid_labels[j] \in ForegroundLabels
              /\ \E R \in RegionsOf(split.centroid_labels[j]) :
                    /\ IsTruncatedMean(split.centroids[j][1], R, 1)
                    /\ IsTruncatedMean(split.centroids[j][2], R, 2)
        /\ \A v \in ForegroundLabels :
              Cardinality({j \in 1..Len(split.centroid_labels) : split.centroid_labels[j] = v})
                 = Cardinality(RegionsOf(v))

\* Both calls have returned for a map with two labels other than
\* background, one with two regions and one with a single region.
C8_Witness ==
    /\ pc = "done"
    /\ Len(plain.centroids) = 2
    /\ Len(split.centroids) = 3
    /\ \E v \in ForegroundLabels : Cardinality(RegionsOf(v)) = 1

(***************************************************************************)
(* resize_labels                                                           *)
(***************************************************************************)

\* Bounds: the rank of the array given as labels, the length of each of its
\* axes, and the width and the height of the target size.
ResizeMaxRank == 4
ResizeMaxDim == 2
ResizeMaxSize == 2

\* An ndarray is [shape, data]: data maps each 0-based index tuple to the
\* entry.  The indices of an array of the given shape:
IndexSet(shape) ==
    {t \in [1..Len(shape) -> 0..(ResizeMaxDim + ResizeMaxSize)] :
        \A i \in 1..Len(shape) : t[i] < shape[i]}

Rank(a) == Len(a.shape)

\* The row-major position of index t in an array of the given shape.
RECURSIVE LinearIndex(_, _)
LinearIndex(t, shape) ==
    IF Len(shape) = 0 THEN 0
    ELSE LinearIndex(SubSeq(t, 1, Len(t) - 1), SubSeq(shape, 1, Len(shape) - 1))
            * shape[Len(shape)] + t[Len(t)]

\* The label map whose every pixel carries a label of its own, its row-major
\* position: any other map of the same shape is a relabelling of this one.
ArrayOfShape(shape) ==
    [shape |-> shape, data |-> [t \in IndexSet(shape) |-> LinearIndex(t, shape)]]

\* a[k], for an array of rank >= 1
Slice(a, k) ==
    [shape |-> Tail(a.shape),
     data |-> [t \in IndexSet(Tail(a.shape)) |-> a.data[<<k>> \o t]]]

\* np.split(a, a.shape[0], axis=0): the pieces of shape [1, ...]
NpSplit(a) ==
    [k \in 1..a.shape[1] |->
        [shape |-> <<1>> \o Tail(a.shape),
         data |-> [t \in IndexSet(<<1>> \o Tail(a.shape)) |->
                      a.data[<<k - 1>> \o Tail(t)]]]]

\* The index of the unsqueezed array for index t of the squeezed one: a 0
\* on every axis of length 1.
RECURSIVE Unsqueezed(_, _)
Unsqueezed(t, shape) ==
    IF Len(shape) = 0 THEN <<>>
    ELSE IF shape[1] = 1 THEN <<0>> \o Unsqueezed(t, Tail(shape))
    ELSE <<t[1]>> \o Unsqueezed(Tail(t), Tail(shape))

DropOnes(shape) == SelectSeq(shape, LAMBDA d : d # 1)

\* np.squeeze(a): every axis of length 1 is removed.
NpSqueeze(a) ==
    [shape |-> DropOnes(a.shape),
     data |-> [t \in IndexSet(DropOnes(a.shape)) |-> a.data[Unsqueezed(t, a.shape)]]]

\* np.stack(list, axis=0) of arrays of one shape
NpStack(list) ==
    [shape |-> <<Len(list)>> \o list[1].shape,
     data |-> [t \in IndexSet(<<Len(list)>> \o list[1].shape) |->
                  list[t[1] + 1].data[Tail(t)]]]

\* The matrix OpenCV makes of an ndarray of rank <= 2: a 2-D array is rows
\* by columns, a 1-D array of length n is a column of n rows, a 0-d array is
\* one by one.
MatRows(a) == IF Rank(a) = 0 THEN 1 ELSE a.shape[1]
MatCols(a) == IF Rank(a) = 2 THEN a.shape[2] ELSE 1
MatAt(a, r, c) ==
    IF Rank(a) = 2 THEN a.data[<<r, c>>]
    ELSE IF Rank(a) = 1 THEN a.data[<<r>>]
    ELSE a.data[<<>>]

Min(x, y) == IF x <= y THEN x ELSE y

\* cv2.resize(src, size, interpolation=cv2.INTER_NEAREST): size is (width,
\* height); the pixel (y, x) of the result is the source pixel
\* (floor(y * rows / height), floor(x * cols / width)), kept inside.
Cv2ResizeNearest(a, sz) ==
    [shape |-> <<sz[2], sz[1]>>,
     data |-> [t \in IndexSet(<<sz[2], sz[1]>>) |->
                  MatAt(a, Min((t[1] * MatRows(a)) \div sz[2], MatRows(a) - 1),
                           Min((t[2] * MatCols(a)) \div sz[1], MatCols(a) - 1))]]

\* The first test with <= for ==: the bug of letting lower ranks through.
IsMapOrLess(a) == Len(a.shape) <= 2

\* len(labels.shape) == 2
IsMap(a) == Len(a.shape) = 2

\* len(labels.shape) == 3
IsStack(a) == Len(a.shape) = 3

resize_labels(a, sz) ==
    IF IsMap(a)
    THEN [status |-> "ok", value |-> Cv2ResizeNearest(a, sz)]
    ELSE IF IsStack(a)
    THEN LET label_list == NpSplit(a)
             resized_list == [k \in 1..Len(label_list) |->
                                 Cv2ResizeNearest(NpSqueeze(label_list[k]), sz)]
         IN [status |-> "ok", value |-> NpStack(resized_list)]
    ELSE [status |-> "ValueError"]

ResizeShapes == UNION {[1..r -> 1..ResizeMaxDim] : r \in 0..ResizeMaxRank}

InitResize ==
    /\ pc = "call"
    /\ labels \in {ArrayOfShape(shape) : shape \in ResizeShapes}
    /\ size \in (1..ResizeMaxSize) \X (1..ResizeMaxSize)
    /\ resized = Idle
    /\ RemapIdle /\ SemanticIdle /\ IouIdle /\ df = Idle /\ OverallIdle /\ CentroidIdle

CallResizeLabels ==
    /\ pc = "call"
    /\ resized' = resize_labels(labels, size)
    /\ pc' = "done"
    /\ UNCHANGED <<labels, size, remapVars, semanticVars, iouVars, df, overallVars,
                   centroidVars>>

NextResize == CallResizeLabels

SpecResize == InitResize /\ [][NextResize]_vars

\* C9 as claimed: for a stack [N, H, W] the result is a stack of N maps and
\* its slice k is the result of resize_labels for the 2-D map labels[k].
C9_Original ==
    pc = "done" /\ Rank(labels) = 3 =>
        /\ resized.status = "ok"
        /\ Rank(resized.value) = 3
        /\ resized.value.shape[1] = labels.shape[1]
        /\ \A k \in 0..(labels.shape[1] - 1) :
              Slice(resized.value, k) = resize_labels(Slice(labels, k), size).value

\* C10: resize_labels fails with the ValueError exactly for the arrays
\* whose rank is neither 2 nor 3.
C10_ValueErrorIffRank ==
    pc = "done" =>
        /\ (Rank(labels) \notin {2, 3} => resized = [status |-> "ValueError"])
        /\ (Rank(labels) \in {2, 3} => resized.status = "ok")

\* The call has failed for an array of rank 4.
C10_Witness ==
    /\ pc = "done"
    /\ Rank(labels) = 4
    /\ resized.status = "ValueError"

\* The float x is a quotient of counts with a denominator of at least 1,
\* hence not NaN, and lies in [0, 1].
IsUnitFraction(x) == x[2] >= 1 /\ 0 <= x[1] /\ x[1] <= x[2]

\* C11: for every label compute_iou reports, the union count is at least 1
\* and the intersection count does not exceed it, so no IoU is a division
\* by zero (NaN) and every IoU lies in [0, 1]; every label entry that
\* calculate_iou_df writes is the sentinel -1 or a value in [0, 1].
C11_IouInUnitInterval ==
    /\ batch_idx > 0 =>
          /\ Len(iou) = Len(iou_labels)
          /\ \A j \in 1..Len(iou) :
                /\ PixelsOf(current_gt, iou_labels[j]) # {}
                /\ IsUnitFraction(iou[j])
    /\ \A k \in 1..Len(df) : \A i \in 1..Len(IouLabelNames) :
          \/ df[k][IouLabelNames[i]] = Sentinel
          \/ IsUnitFraction(df[k][IouLabelNames[i]])

\* A returned table holds, in one row, a sentinel, an IoU of 0 whose union
\* is not empty, and an IoU strictly between 0 and 1.
C11_Witness ==
    /\ pc = "done" /\ Len(df) = 2
    /\ \E i \in 1..Len(IouLabelNames) : df[1][IouLabelNames[i]] = Sentinel
    /\ \E j \in 1..Len(iou) : iou[j][1] = 0 /\ iou[j][2] >= 1
    /\ \E i \in 1..Len(IouLabelNames) :
          LET x == df[1][IouLabelNames[i]] IN 0 < x[1] /\ x[1] < x[2]

=============================================================================
